---- MODULE Spec2Model ----
(***************************************************************************)
(* cookie-taster: the combination engine of core/combinations.py.          *)
(*                                                                         *)
(* Python dictionaries are mutable objects handed around by reference, so  *)
(* every dictionary the engine reads or creates lives in `heap` and is     *)
(* named by its index there.  A dictionary value is a function from its    *)
(* keys to its values; `selections` is an insertion-ordered dictionary and *)
(* is kept as the sequence of its items.                                   *)
(***************************************************************************)
EXTENDS Integers, Sequences, FiniteSets, TLC

VARIABLES
    options,        \* list[TemplateOption] handed to the engine
    selections,     \* dict[str, list[str]], as the sequence of its items
    base_context,   \* reference into heap of the caller's base context, or None
    heap,           \* the dictionaries that exist, by reference
    pc,             \* "input", "estimated", "returned", "raised", "mutated"
    count,          \* what estimate_combination_count returned
    outcome,        \* how the last generate_combinations call ended
    combinations,   \* the references it returned
    constructed,    \* the TemplateOption(...) calls made, each with how it ended
    ticked,         \* the ticked checkboxes of the options screen: <<option, choice>>
    plugins,        \* the tasters registered with the PluginManager, in registration order
    request,        \* the PluginManager method called, with its arguments
    reply,          \* how that call ended: the list returned, or the exception
    invoked,        \* the plugins whose test_project that call ran, in the order run
    pairs,          \* the pairs that call's zip loops formed, by the plugins paired
    results,        \* ExecutionScreen.results: (context, success, messages) per project
    current_step,   \* the progress shown by the progress bar
    total_steps,    \* the total of the progress bar
    status,         \* the text of the status line
    shown,          \* the project the status line names: its number and its label
    done_disabled,  \* whether the Done button is disabled
    index,          \* i of the loop over the combinations
    generated,      \* the calls of ProjectGenerator.generate, each with how it ended
    taster_runs,    \* the calls of run_tasters, each with how it ended
    disk,           \* the directories that exist, and the temporary ones made so far
    inspector,      \* the TemplateInspector: template_source, _template_dir, _context
    inspected       \* how the last method call on the inspector ended

engineVars == <<options, selections, base_context, heap, count, outcome, combinations>>
optionVars == <<constructed, ticked>>
dispatchVars == <<plugins, request, reply, invoked, pairs>>
runVars == <<results, current_step, total_steps, status, shown, done_disabled,
             index, generated, taster_runs>>

inspectorVars == <<disk, inspector, inspected>>

vars == <<pc, engineVars, optionVars, dispatchVars, runVars, inspectorVars>>

----------------------------------------------------------------------------
(* Bounds of the input space. *)
MaxOptions == 2
MaxChoices == 2
MaxSources == 2
MaxCloneDirs == 2
MaxSelections == 2
MaxSelected == 2
MaxConstructed == 2
MaxTasters == 2
MaxNames == 3

OptionNames == {"db", "cache"}
Values == {"a", "b"}
BaseKeys == {"db", "project"}
BaseValue == "q"
MutatedValue == "m"
MutatedKeys == {"db", "project"}

\* base_context's default: no dictionary (combinations.py:11).
None == 0

Range(s) == {s[i] : i \in DOMAIN s}

SeqsUpTo(S, lo, hi) == UNION {[1..n -> S] : n \in lo..hi}

----------------------------------------------------------------------------
(* core/template.py: TemplateOption *)

\* __post_init__ raises ValueError for empty choices or a default outside them.
\* Variant: the test `self.default not in self.choices` left out.
PostInitRaisesEmptyOnly(option) ==
    option.choices = <<>>

PostInitRaises(option) ==
    \/ option.choices = <<>>
    \/ option.default \notin Range(option.choices)

TemplateOption(name, choices, default) ==
    [name |-> name, choices |-> choices, default |-> default]

\* Lists of choices. The engine reads choices through membership tests only
\* (`v not in option.choices`), so a list is taken without repeated values.
ChoiceLists ==
    {c \in SeqsUpTo(Values, 0, MaxChoices) :
        \A x, y \in DOMAIN c : c[x] = c[y] => x = y}

\* The options that can be constructed.
TemplateOptions ==
    {o \in {TemplateOption(n, c, d) : n \in OptionNames,
                                      c \in ChoiceLists,
                                      d \in Values} : ~PostInitRaises(o)}

\* _extract_options builds the list from the items of one dictionary, so the
\* names of the options of a list are distinct.
OptionLists ==
    {os \in SeqsUpTo(TemplateOptions, 0, MaxOptions) :
        \A i, j \in DOMAIN os : os[i].name = os[j].name => i = j}

Item(name, values) == [name |-> name, values |-> values]

\* Dictionaries with list values: the keys of a dictionary are distinct.
SelectionMaps ==
    {ss \in SeqsUpTo({Item(n, v) : n \in OptionNames,
                                   v \in SeqsUpTo(Values, 0, MaxSelected)},
                     0, MaxSelections) :
        \A i, j \in DOMAIN ss : ss[i].name = ss[j].name => i = j}

BaseDicts == {[k \in K |-> BaseValue] : K \in SUBSET BaseKeys}

----------------------------------------------------------------------------
(* Dictionaries and the heap. *)

EmptyDict == [k \in {} |-> BaseValue]

\* d[k] = v
DictSet(d, k, v) == [x \in DOMAIN d \cup {k} |-> IF x = k THEN v ELSE d[x]]

\* heap[ref][k] = v
HeapSet(h, ref, k, v) == [h EXCEPT ![ref] = DictSet(h[ref], k, v)]

\* {}: a new empty dictionary
NewDict(h) == [heap |-> Append(h, EmptyDict), ref |-> Len(h) + 1]

\* dict(d): a new dictionary with the items of heap[ref]
DictCopy(h, ref) == [heap |-> Append(h, h[ref]), ref |-> Len(h) + 1]

\* name in selections
InSelections(name, sels) == \E i \in DOMAIN sels : sels[i].name = name

\* selections[name]
Lookup(sels, name) == sels[CHOOSE i \in DOMAIN sels : sels[i].name = name].values

----------------------------------------------------------------------------
(* core/combinations.py: generate_combinations *)

\* option_map = {opt.name: opt for opt in options}: a later option of the
\* same name replaces an earlier one.
OptionMap(opts) ==
    [n \in {opts[i].name : i \in DOMAIN opts} |->
        opts[CHOOSE i \in DOMAIN opts :
                /\ opts[i].name = n
                /\ \A j \in DOMAIN opts : opts[j].name = n => j <= i]]

Ok == [kind |-> "ok", option_name |-> "", invalid_values |-> <<>>, choices |-> <<>>]

\* raise ValueError(f"Unknown option: {option_name}")
UnknownOption(option_name) ==
    [kind |-> "unknown_option", option_name |-> option_name,
     invalid_values |-> <<>>, choices |-> <<>>]

\* raise ValueError(f"Invalid values for option '{option_name}':
\*                    {invalid_values}. Valid choices: {option.choices}")
InvalidChoice(option_name, invalid_values, choices) ==
    [kind |-> "invalid_choice", option_name |-> option_name,
     invalid_values |-> invalid_values, choices |-> choices]

\* Variant: reports the first offending value only.
InvalidValuesFirstOnly(selected_values, option) ==
    LET bad == SelectSeq(selected_values, LAMBDA v : v \notin Range(option.choices))
    IN  IF bad = <<>> THEN <<>> ELSE <<bad[1]>>

\* Variant: finds no value invalid.
InvalidValuesUnchecked(selected_values, option) == <<>>

\* invalid_values = [v for v in selected_values if v not in option.choices]
InvalidValues(selected_values, option) ==
    SelectSeq(selected_values, LAMBDA v : v \notin Range(option.choices))

\* Variant: passes over a key that names no option instead of raising.
RECURSIVE ValidateSkippingUnknown(_, _, _)
ValidateSkippingUnknown(option_map, sels, i) ==
    IF i > Len(sels) THEN Ok
    ELSE LET option_name == sels[i].name
             selected_values == sels[i].values
         IN  IF option_name \notin DOMAIN option_map
             THEN ValidateSkippingUnknown(option_map, sels, i + 1)
             ELSE LET option == option_map[option_name]
                      invalid_values ==
                          SelectSeq(selected_values,
                                    LAMBDA v : v \notin Range(option.choices))
                  IN  IF invalid_values # <<>>
                      THEN InvalidChoice(option_name, invalid_values, option.choices)
                      ELSE ValidateSkippingUnknown(option_map, sels, i + 1)

\* The validation loop over selections.items(), from the i-th item on: the
\* first item that is unknown or holds an invalid value raises.
RECURSIVE Validate(_, _, _)
Validate(option_map, sels, i) ==
    IF i > Len(sels) THEN Ok
    ELSE LET option_name == sels[i].name
             selected_values == sels[i].values
         IN  IF option_name \notin DOMAIN option_map
             THEN UnknownOption(option_name)
             ELSE LET option == option_map[option_name]
                      invalid_values == InvalidValues(selected_values, option)
                  IN  IF invalid_values # <<>>
                      THEN InvalidChoice(option_name, invalid_values, option.choices)
                      ELSE Validate(option_map, sels, i + 1)

\* option.name in selections and len(selections[option.name]) > 0
IsVarying(option, sels) ==
    InSelections(option.name, sels) /\ Len(Lookup(sels, option.name)) > 0

\* Variant: visits the items of selections instead of the list of options.
VaryingOptionsInSelectionOrder(opts, sels) ==
    LET varying == SelectSeq(sels, LAMBDA it :
                       /\ Len(it.values) > 0
                       /\ \E j \in DOMAIN opts : opts[j].name = it.name)
    IN  [i \in DOMAIN varying |-> varying[i].name]

\* The loop that fills varying_options: the options are visited in the order
\* of the list `options`.
VaryingOptions(opts, sels) ==
    LET varying == SelectSeq(opts, LAMBDA o : IsVarying(o, sels))
    IN  [i \in DOMAIN varying |-> varying[i].name]

\* ... and varying_values, filled by the same loop.
VaryingValues(opts, sels) ==
    LET names == VaryingOptions(opts, sels)
    IN  [i \in DOMAIN names |-> Lookup(sels, names[i])]

\* Variant: [x + [y] for y in pool for x in result], the loops exchanged.
RECURSIVE ExtendPoolOutermost(_, _, _, _)
ExtendPoolOutermost(result, pool, ix, iy) ==
    IF iy > Len(pool) THEN <<>>
    ELSE IF ix > Len(result) THEN ExtendPoolOutermost(result, pool, 1, iy + 1)
    ELSE <<Append(result[ix], pool[iy])>> \o ExtendPoolOutermost(result, pool, ix + 1, iy)

\* One round of itertools.product: [x + [y] for x in result for y in pool]
RECURSIVE Extend(_, _, _, _)
Extend(result, pool, ix, iy) ==
    IF ix > Len(result) THEN <<>>
    ELSE IF iy > Len(pool) THEN Extend(result, pool, ix + 1, 1)
    ELSE <<Append(result[ix], pool[iy])>> \o Extend(result, pool, ix, iy + 1)

\* itertools.product(*pools): result = [[]], then one round per pool.
RECURSIVE ProductFrom(_, _, _)
ProductFrom(result, pools, i) ==
    IF i > Len(pools) THEN result
    ELSE ProductFrom(Extend(result, pools[i], 1, 1), pools, i + 1)

Product(pools) == ProductFrom(<< <<>> >>, pools, 1)

\* Variant: result_context.setdefault(option.name, option.default)
RECURSIVE SetDefaultsKeepingBase(_, _, _, _)
SetDefaultsKeepingBase(h, ref, opts, i) ==
    IF i > Len(opts) THEN h
    ELSE IF opts[i].name \in DOMAIN h[ref]
         THEN SetDefaultsKeepingBase(h, ref, opts, i + 1)
         ELSE SetDefaultsKeepingBase(HeapSet(h, ref, opts[i].name, opts[i].default),
                                     ref, opts, i + 1)

\* for option in options: result_context[option.name] = option.default
RECURSIVE SetDefaults(_, _, _, _)
SetDefaults(h, ref, opts, i) ==
    IF i > Len(opts) THEN h
    ELSE SetDefaults(HeapSet(h, ref, opts[i].name, opts[i].default), ref, opts, i + 1)

\* Variant: combo_context.setdefault(option_name, value)
RECURSIVE ApplyVaryingKeepingBase(_, _, _, _, _)
ApplyVaryingKeepingBase(h, ref, varying_options, value_tuple, i) ==
    IF i > Len(varying_options) THEN h
    ELSE IF varying_options[i] \in DOMAIN h[ref]
         THEN ApplyVaryingKeepingBase(h, ref, varying_options, value_tuple, i + 1)
         ELSE ApplyVaryingKeepingBase(
                  HeapSet(h, ref, varying_options[i], value_tuple[i]),
                  ref, varying_options, value_tuple, i + 1)

\* for option_name, value in zip(varying_options, value_tuple, strict=True):
\*     combo_context[option_name] = value
RECURSIVE ApplyVarying(_, _, _, _, _)
ApplyVarying(h, ref, varying_options, value_tuple, i) ==
    IF i > Len(varying_options) THEN h
    ELSE ApplyVarying(HeapSet(h, ref, varying_options[i], value_tuple[i]),
                      ref, varying_options, value_tuple, i + 1)

\* Variant: the test is `option.name not in selections` alone.
RECURSIVE SetFixedDefaultsAbsentOnly(_, _, _, _, _)
SetFixedDefaultsAbsentOnly(h, ref, opts, sels, i) ==
    IF i > Len(opts) THEN h
    ELSE IF ~InSelections(opts[i].name, sels)
         THEN SetFixedDefaultsAbsentOnly(
                  HeapSet(h, ref, opts[i].name, opts[i].default), ref, opts, sels, i + 1)
         ELSE SetFixedDefaultsAbsentOnly(h, ref, opts, sels, i + 1)

\* for option in options:
\*     if option.name not in selections or len(selections[option.name]) == 0:
\*         combo_context[option.name] = option.default
RECURSIVE SetFixedDefaults(_, _, _, _, _)
SetFixedDefaults(h, ref, opts, sels, i) ==
    IF i > Len(opts) THEN h
    ELSE IF ~InSelections(opts[i].name, sels) \/ Len(Lookup(sels, opts[i].name)) = 0
         THEN SetFixedDefaults(HeapSet(h, ref, opts[i].name, opts[i].default),
                               ref, opts, sels, i + 1)
         ELSE SetFixedDefaults(h, ref, opts, sels, i + 1)

\* Variant: combo_context = base_context, no copy.
NewContextAliasingBase(h, base) == [heap |-> h, ref |-> base]

\* combo_context = dict(base_context)
NewContext(h, base) == DictCopy(h, base)

\* The loop over product(*varying_values), from the i-th tuple on.
RECURSIVE Combine(_, _, _, _, _, _, _, _)
Combine(h, base, opts, sels, varying_options, tuples, i, acc) ==
    IF i > Len(tuples) THEN [heap |-> h, combinations |-> acc]
    ELSE LET c  == NewContext(h, base)
             h1 == ApplyVarying(c.heap, c.ref, varying_options, tuples[i], 1)
             h2 == SetFixedDefaults(h1, c.ref, opts, sels, 1)
         IN  Combine(h2, base, opts, sels, varying_options, tuples, i + 1,
                     Append(acc, c.ref))

\* The body of generate_combinations after validation.
Expand(h, opts, sels, base) ==
    LET b == IF base = None THEN NewDict(h) ELSE [heap |-> h, ref |-> base]
        varying_options == VaryingOptions(opts, sels)
        varying_values == VaryingValues(opts, sels)
    IN  IF varying_options = <<>>
        THEN LET c == NewContext(b.heap, b.ref)
             IN  [heap |-> SetDefaults(c.heap, c.ref, opts, 1),
                  combinations |-> <<c.ref>>]
        ELSE Combine(b.heap, b.ref, opts, sels, varying_options,
                     Product(varying_values), 1, <<>>)

\* generate_combinations(options, selections, base_context) run on heap h:
\* how it ends, the heap it leaves and the references it returns.
GenerateCombinations(h, opts, sels, base) ==
    LET checked == Validate(OptionMap(opts), sels, 1)
    IN  IF checked.kind # "ok"
        THEN [outcome |-> checked, heap |-> h, combinations |-> <<>>]
        ELSE LET e == Expand(h, opts, sels, base)
             IN  [outcome |-> Ok, heap |-> e.heap, combinations |-> e.combinations]

----------------------------------------------------------------------------
(* core/combinations.py: estimate_combination_count *)

\* Variant: the test `option_name in option_map` left out.
RECURSIVE EstimateFromCountingUnknown(_, _, _, _)
EstimateFromCountingUnknown(option_map, sels, i, n) ==
    IF i > Len(sels) THEN n
    ELSE IF Len(sels[i].values) > 0
         THEN EstimateFromCountingUnknown(option_map, sels, i + 1, n * Len(sels[i].values))
         ELSE EstimateFromCountingUnknown(option_map, sels, i + 1, n)

\* Variant: the test `len(selected_values) > 0` left out.
RECURSIVE EstimateFromCountingEmpty(_, _, _, _)
EstimateFromCountingEmpty(option_map, sels, i, n) ==
    IF i > Len(sels) THEN n
    ELSE IF sels[i].name \in DOMAIN option_map
         THEN EstimateFromCountingEmpty(option_map, sels, i + 1, n * Len(sels[i].values))
         ELSE EstimateFromCountingEmpty(option_map, sels, i + 1, n)

\* The loop of estimate_combination_count over selections.items().
RECURSIVE EstimateFrom(_, _, _, _)
EstimateFrom(option_map, sels, i, n) ==
    IF i > Len(sels) THEN n
    ELSE IF sels[i].name \in DOMAIN option_map /\ Len(sels[i].values) > 0
         THEN EstimateFrom(option_map, sels, i + 1, n * Len(sels[i].values))
         ELSE EstimateFrom(option_map, sels, i + 1, n)

EstimateCombinationCount(opts, sels) == EstimateFrom(OptionMap(opts), sels, 1, 1)

----------------------------------------------------------------------------
(* The state machine: a caller builds the arguments, asks for the estimate,
   calls the engine and may then change a returned context. *)

\* The contexts a result names, by value.
Deref(h, refs) == [i \in DOMAIN refs |-> h[refs[i]]]

NotCalled == [kind |-> "none", option_name |-> "", invalid_values |-> <<>>, choices |-> <<>>]

EngineInit ==
    /\ options \in OptionLists
    /\ selections \in SelectionMaps
    /\ \E b \in {None} \cup {1} :
          /\ base_context = b
          /\ heap \in (IF b = None THEN {<<>>} ELSE {<<d>> : d \in BaseDicts})
    /\ pc = "input"
    /\ count = 0
    /\ outcome = NotCalled
    /\ combinations = <<>>

\* No TemplateOption(...) call is under observation.
OptionIdle ==
    /\ constructed = <<>>
    /\ ticked = {}

NoRequest == [method |-> "none", omitted |-> TRUE, taster_names |-> <<>>]
NoReply == [kind |-> "none", value |-> <<>>]

\* No PluginManager is under observation.
DispatchIdle ==
    /\ plugins = <<>>
    /\ request = NoRequest
    /\ reply = NoReply
    /\ invoked = <<>>
    /\ pairs = <<>>

\* A directory: a local template, a temporary directory, or the repository
\* cloned into a temporary directory.  Paths stand for resolved directories.
Path(root, n, sub) == [root |-> root, n |-> n, sub |-> sub]
NoPath == Path("none", 0, "")

NoCall == [call |-> "none", kind |-> "none", dir |-> NoPath]

\* No TemplateInspector is under observation.
InspectorIdle ==
    /\ disk = [dirs |-> {}, made |-> 0]
    /\ inspector = [template_source |-> [kind |-> "none", n |-> 0],
                    template_dir |-> NoPath, context |-> FALSE]
    /\ inspected = NoCall

\* The total of the progress bar as compose() builds it.
InitialTotal == 100

\* ExecutionScreen as __init__ and compose() leave it.
ScreenInit ==
    /\ results = <<>>
    /\ current_step = 0
    /\ total_steps = InitialTotal
    /\ status = "Initializing..."
    /\ shown = [i |-> 0, label |-> {}]
    /\ done_disabled = TRUE
    /\ index = 0
    /\ generated = <<>>
    /\ taster_runs = <<>>

Init ==
    /\ EngineInit
    /\ OptionIdle
    /\ DispatchIdle
    /\ InspectorIdle
    /\ ScreenInit

Estimate ==
    /\ pc = "input"
    /\ count' = EstimateCombinationCount(options, selections)
    /\ pc' = "estimated"
    /\ UNCHANGED <<options, selections, base_context, heap, outcome, combinations>>
    /\ UNCHANGED <<optionVars, dispatchVars, runVars, inspectorVars>>

Generate ==
    /\ pc = "estimated"
    /\ LET r == GenerateCombinations(heap, options, selections, base_context)
       IN  /\ outcome' = r.outcome
           /\ heap' = r.heap
           /\ combinations' = r.combinations
           /\ pc' = IF r.outcome.kind = "ok" THEN "returned" ELSE "raised"
    /\ UNCHANGED <<options, selections, base_context, count>>
    /\ UNCHANGED <<optionVars, dispatchVars, runVars, inspectorVars>>

\* The caller changes one of the contexts it was handed: context[k] = v.
Mutate ==
    /\ pc = "returned"
    /\ \E i \in DOMAIN combinations, k \in MutatedKeys :
          heap' = HeapSet(heap, combinations[i], k, MutatedValue)
    /\ pc' = "mutated"
    /\ UNCHANGED <<options, selections, base_context, count, outcome, combinations>>
    /\ UNCHANGED <<optionVars, dispatchVars, runVars, inspectorVars>>

Next == Estimate \/ Generate \/ Mutate

Spec == Init /\ [][Next]_vars

----------------------------------------------------------------------------
(* Constructing options: TemplateOption(name=..., choices=..., default=...). *)

\* The arguments a caller can pass; the dataclass accepts any list of choices.
OptionArguments ==
    {TemplateOption(n, c, d) : n \in OptionNames,
                               c \in SeqsUpTo(Values, 0, MaxChoices),
                               d \in Values}

\* The generated __init__ stores the fields and runs __post_init__.
Construct(name, choices, default) ==
    LET self == TemplateOption(name, choices, default)
    IN  [self |-> self, raised |-> PostInitRaises(self)]

OptionInit ==
    /\ constructed = <<>>
    /\ ticked = {}
    /\ pc = "construct"
    /\ options = <<>>
    /\ selections = <<>>
    /\ base_context = None
    /\ heap = <<>>
    /\ count = 0
    /\ outcome = NotCalled
    /\ combinations = <<>>
    /\ DispatchIdle
    /\ InspectorIdle
    /\ ScreenInit

ConstructOption ==
    /\ pc = "construct"
    /\ Len(constructed) < MaxConstructed
    /\ \E a \in OptionArguments :
          constructed' = Append(constructed, Construct(a.name, a.choices, a.default))
    /\ UNCHANGED <<pc, ticked, engineVars, dispatchVars, runVars, inspectorVars>>

OptionNext == ConstructOption

OptionSpec == OptionInit /\ [][OptionNext]_vars

----------------------------------------------------------------------------
(* plugins/manager.py: PluginManager over the hooks of plugins/hookspecs.py *)

TasterNames == {"t1", "t2"}

\* A name no registered taster declares.
UnregisteredName == "t0"

\* plugins/models.py: TasterStatus
TasterStatus == {"success", "failure", "skipped", "error"}

\* A test_project that raises instead of returning a TasterResult.
Raises == "raise"

\* plugins/hookspecs.py: the three hooks.
Hooks == {"get_taster_name", "can_handle", "test_project"}

\* A name that the comprehension `if name` of get_taster_names drops.
EmptyName == ""

\* A taster: what its three hook implementations do for the project at hand.
\* `hooks` are the hooks it implements with a result other than None; a
\* taster implements them all.
Tasters ==
    [name : TasterNames, can_handle : BOOLEAN, test : TasterStatus \cup {Raises},
     hooks : {Hooks}]

\* A plugin at large: it may leave hooks out, or return None from them,
\* and may declare the empty name.
Plugins ==
    [name : TasterNames \cup {EmptyName}, can_handle : BOOLEAN, test : {"success"},
     hooks : SUBSET Hooks]

\* The explicit taster_names lists a caller passes.
NameLists == SeqsUpTo(TasterNames \cup {UnregisteredName}, 0, MaxNames)

\* Variant: the implementations called in the order of registration.
HookOrderAsRegistered(n) == [k \in 1..n |-> k]

\* self.pm.hook.<name>(...): pluggy calls the implementations of the n
\* registered plugins last registered first and returns their results in the
\* order of the calls. HookOrder(n)[k] is the plugin called k-th.
HookOrder(n) == [k \in 1..n |-> n + 1 - k]

\* The plugins that the list of results of a hook call has a result of, in
\* the order of the list: pluggy calls the plugins that implement the hook
\* and leaves out the results that are None.
HookImpls(ps, hook) ==
    SelectSeq(HookOrder(Len(ps)), LAMBDA k : hook \in ps[k].hooks)

\* The TasterResult that plugin k's test_project builds; `plugin` is the
\* identity of the plugin that built the object.
TasterResult(ps, k) ==
    [taster_name |-> ps[k].name, status |-> ps[k].test, plugin |-> k]

Returned(value) == [kind |-> "returned", value |-> value]
Raised == [kind |-> "raised", value |-> <<>>]

\* zip(xs, ys, strict=True) of two lists of one length
Zip(xs, ys) == [k \in DOMAIN xs |-> <<xs[k], ys[k]>>]

\* [x for x, keep in pairs if keep-test], as the list of the first components
Firsts(pairs_) == [k \in DOMAIN pairs_ |-> pairs_[k][1]]
Seconds(pairs_) == [k \in DOMAIN pairs_ |-> pairs_[k][2]]

\* The plugins whose names get_taster_names returns, in the order returned:
\* `[name for name in results if name]` drops the empty names.
NamedPlugins(ps) ==
    SelectSeq(HookImpls(ps, "get_taster_name"), LAMBDA k : ps[k].name # EmptyName)

GetTasterNames(ps) ==
    LET named == NamedPlugins(ps)
    IN  [x \in DOMAIN named |-> ps[named[x]].name]

\* The pairs a loop over zip(names, others, strict=True) goes through, by the
\* plugins the two components come from: as many as the shorter list has.
ZipPairs(ps, hook) ==
    LET named == NamedPlugins(ps)
        others == HookImpls(ps, hook)
        n == IF Len(named) <= Len(others) THEN Len(named) ELSE Len(others)
    IN  [x \in 1..n |-> [name |-> named[x], other |-> others[x]]]

\* get_applicable_tasters; zip(..., strict=True) raises ValueError when the
\* two lists differ in length.
GetApplicableTasters(ps) ==
    LET names == GetTasterNames(ps)
        answering == HookImpls(ps, "can_handle")
        can_handle_results == [x \in DOMAIN answering |-> ps[answering[x]].can_handle]
        CanHandle(pair) == pair[2]
    IN  IF Len(names) # Len(can_handle_results)
        THEN Raised
        ELSE Returned(Firsts(SelectSeq(Zip(names, can_handle_results), CanHandle)))

\* Variant: the test `name in taster_names` left out.
FilterResultsKeepingAll(all_names, all_results, taster_names) ==
    all_results

\* the loop of run_tasters over zip(all_names, all_results)
FilterResults(all_names, all_results, taster_names) ==
    LET Requested(pair) == pair[1] \in Range(taster_names)
    IN  Seconds(SelectSeq(Zip(all_names, all_results), Requested))

\* run_tasters(project_info, taster_names); `omitted` is taster_names is None.
\* The hook call runs test_project of every registered taster; an exception
\* of one of them leaves run_tasters, which has no handler, and so does the
\* ValueError of a zip over lists of different lengths.
RunTasters(ps, omitted, taster_names) ==
    LET applicable == IF omitted THEN GetApplicableTasters(ps)
                      ELSE Returned(taster_names)
        all_names == GetTasterNames(ps)
        testing == HookImpls(ps, "test_project")
        all_results == [x \in DOMAIN testing |-> TasterResult(ps, testing[x])]
    IN  IF applicable.kind = "raised"
        THEN Raised
        ELSE IF \E x \in DOMAIN testing : ps[testing[x]].test = Raises
        THEN Raised
        ELSE IF Len(all_names) # Len(all_results)
        THEN Raised
        ELSE Returned(FilterResults(all_names, all_results, applicable.value))

\* The test_project implementations that the hook call of run_tasters runs:
\* one after the other in the order of the hook, none after one that raises,
\* and none when get_applicable_tasters has raised before.
TestProjectCalls(ps, omitted) ==
    LET testing == HookImpls(ps, "test_project")
        raising == {x \in DOMAIN testing : ps[testing[x]].test = Raises}
    IN  IF omitted /\ GetApplicableTasters(ps).kind = "raised" THEN <<>>
        ELSE IF raising = {} THEN testing
        ELSE SubSeq(testing, 1, CHOOSE x \in raising : \A y \in raising : x <= y)

\* The pairs the zip loops of run_tasters form: those of
\* get_applicable_tasters when taster_names is None, then those of the
\* filter loop when the call gets there.
RunTastersPairs(ps, omitted) ==
    LET first == IF omitted THEN ZipPairs(ps, "can_handle") ELSE <<>>
        testing == HookImpls(ps, "test_project")
    IN  IF omitted /\ GetApplicableTasters(ps).kind = "raised" THEN first
        ELSE IF \E x \in DOMAIN testing : ps[testing[x]].test = Raises THEN first
        ELSE first \o ZipPairs(ps, "test_project")

DispatchInit ==
    /\ plugins = <<>>
    /\ request = NoRequest
    /\ reply = NoReply
    /\ invoked = <<>>
    /\ pairs = <<>>
    /\ pc = "register"
    /\ options = <<>>
    /\ selections = <<>>
    /\ base_context = None
    /\ heap = <<>>
    /\ count = 0
    /\ outcome = NotCalled
    /\ combinations = <<>>
    /\ OptionIdle
    /\ ScreenInit
    /\ InspectorIdle

\* register_plugin(plugin)
RegisterPlugin ==
    /\ pc = "register"
    /\ Len(plugins) < MaxTasters
    /\ \E plugin \in Tasters : plugins' = Append(plugins, plugin)
    /\ UNCHANGED <<pc, request, reply, invoked, pairs, engineVars, optionVars, runVars, inspectorVars>>

CallGetTasterNames ==
    /\ pc = "register"
    /\ request' = [method |-> "get_taster_names", omitted |-> TRUE, taster_names |-> <<>>]
    /\ reply' = Returned(GetTasterNames(plugins))
    /\ invoked' = <<>>
    /\ pairs' = <<>>
    /\ pc' = "replied"
    /\ UNCHANGED <<plugins, engineVars, optionVars, runVars, inspectorVars>>

CallGetApplicableTasters ==
    /\ pc = "register"
    /\ request' = [method |-> "get_applicable_tasters", omitted |-> TRUE, taster_names |-> <<>>]
    /\ reply' = GetApplicableTasters(plugins)
    /\ invoked' = <<>>
    /\ pairs' = ZipPairs(plugins, "can_handle")
    /\ pc' = "replied"
    /\ UNCHANGED <<plugins, engineVars, optionVars, runVars, inspectorVars>>

CallRunTasters ==
    /\ pc = "register"
    /\ \E omitted \in BOOLEAN :
       \E taster_names \in (IF omitted THEN {<<>>} ELSE NameLists) :
          /\ request' = [method |-> "run_tasters", omitted |-> omitted,
                                 taster_names |-> taster_names]
          /\ reply' = RunTasters(plugins, omitted, taster_names)
          /\ invoked' = TestProjectCalls(plugins, omitted)
          /\ pairs' = RunTastersPairs(plugins, omitted)
    /\ pc' = "replied"
    /\ UNCHANGED <<plugins, engineVars, optionVars, runVars, inspectorVars>>

DispatchNext ==
    \/ RegisterPlugin
    \/ CallGetTasterNames
    \/ CallGetApplicableTasters
    \/ CallRunTasters

DispatchSpec == DispatchInit /\ [][DispatchNext]_vars

\* register_plugin(plugin) of any plugin, not of well-formed tasters only
RegisterAnyPlugin ==
    /\ pc = "register"
    /\ Len(plugins) < MaxTasters
    /\ \E plugin \in Plugins : plugins' = Append(plugins, plugin)
    /\ UNCHANGED <<pc, request, reply, invoked, pairs, engineVars, optionVars, runVars, inspectorVars>>

\* run_tasters(project_info)
CallRunApplicableTasters ==
    /\ pc = "register"
    /\ request' = [method |-> "run_tasters", omitted |-> TRUE, taster_names |-> <<>>]
    /\ reply' = RunTasters(plugins, TRUE, <<>>)
    /\ invoked' = TestProjectCalls(plugins, TRUE)
    /\ pairs' = RunTastersPairs(plugins, TRUE)
    /\ pc' = "replied"
    /\ UNCHANGED <<plugins, engineVars, optionVars, runVars, inspectorVars>>

PluginNext ==
    \/ RegisterAnyPlugin
    \/ CallGetApplicableTasters
    \/ CallRunApplicableTasters

PluginSpec == DispatchInit /\ [][PluginNext]_vars

----------------------------------------------------------------------------
(* tui/screens/execution.py: ExecutionScreen._start_execution, the worker
   that on_mount starts, over core/generator.py: ProjectGenerator. *)

\* Generate + Test
StepsPerProject == 2

\* The options of a template: _extract_options takes the first choice as
\* the default.
RunOptionLists ==
    {os \in OptionLists : \A k \in DOMAIN os : os[k].default = os[k].choices[1]}

\* The selections handed to the screen: lists without repeated values.
RunSelectionMaps ==
    {ss \in SelectionMaps :
        \A k \in DOMAIN ss : \A x, y \in DOMAIN ss[k].values :
            ss[k].values[x] = ss[k].values[y] => x = y}

\* The full template context the application passes as base_context.
TemplateContext == [k \in BaseKeys |-> BaseValue]

\* The tasters load_plugins finds at the entry points, in the order it
\* registers them; each declares a name of its own.
EntryPoints ==
    {ps \in SeqsUpTo(Tasters, 0, MaxTasters) :
        \A j, k \in DOMAIN ps : ps[j].name = ps[k].name => j = k}

\* (context, success, messages)
RunResult(context, success, messages) ==
    [context |-> context, success |-> success, messages |-> messages]

GenerationFailed == "Generation failed"
NoProjectInfo == "Failed to create project info"

\* all(r.status == TasterStatus.SUCCESS for r in taster_results)
AllSuccess(taster_results) ==
    \A x \in DOMAIN taster_results : taster_results[x].status = "success"

\* [f"{r.taster_name}: {r.message}" for r in taster_results]; the message of
\* a result is the taster's account of its status.
Messages(taster_results) ==
    [x \in DOMAIN taster_results |->
        <<taster_results[x].taster_name, taster_results[x].status>>]

\* Variant: the whole context, without the test `k in option_names`.
FormatContextInFull(h, context, opts) ==
    {[k |-> k, v |-> h[context][k]] : k \in DOMAIN h[context]}

\* _format_context(context): the assignments k=v of the label. The order in
\* which the label lists them is that of the dictionary, which the model of
\* dictionaries does not keep.
FormatContext(h, context, opts) ==
    LET option_names == {opts[j].name : j \in DOMAIN opts}
        relevant == {k \in DOMAIN h[context] : k \in option_names}
    IN  {[k |-> k, v |-> h[context][k]] : k \in relevant}

\* One call of ProjectGenerator.generate for the configuration at hand.
GenerateCall(success) == [configuration |-> index, success |-> success]

\* One call of run_tasters for the project of the configuration at hand;
\* `project` is the call of generate that made the project passed: the one
\* generate_with_info has just made.
TasterRun(r) ==
    [configuration |-> index, reply |-> r, project |-> Len(generated) + 1]

RunInit ==
    /\ options \in RunOptionLists
    /\ selections \in RunSelectionMaps
    /\ base_context = 1
    /\ heap = <<TemplateContext>>
    /\ count = 0
    /\ outcome = NotCalled
    /\ combinations = <<>>
    /\ pc = "mount"
    /\ OptionIdle
    /\ DispatchIdle
    /\ InspectorIdle
    /\ ScreenInit

\* Variant: a rejection caught, the run going on with the base context as the
\* one configuration.
StartExecutionFallingBack ==
    /\ pc = "mount"
    /\ status' = "Generating combinations..."
    /\ LET r == GenerateCombinations(heap, options, selections, base_context)
       IN  /\ outcome' = r.outcome
           /\ heap' = r.heap
           /\ combinations' = IF r.outcome.kind = "ok" THEN r.combinations
                               ELSE <<base_context>>
           /\ total_steps' = Len(combinations') * StepsPerProject
           /\ plugins' \in EntryPoints
           /\ index' = 1
           /\ pc' = "loop"
    /\ UNCHANGED <<options, selections, base_context, count, request, reply, invoked, pairs,
                   results, current_step, shown, done_disabled, generated, taster_runs>>
    /\ UNCHANGED <<optionVars, inspectorVars>>

\* Lines 125-149: the combinations, the total, the plugin manager. An
\* exception of generate_combinations ends the worker.
StartExecution ==
    /\ pc = "mount"
    /\ status' = "Generating combinations..."
    /\ LET r == GenerateCombinations(heap, options, selections, base_context)
       IN  /\ outcome' = r.outcome
           /\ heap' = r.heap
           /\ combinations' = r.combinations
           /\ IF r.outcome.kind = "ok"
              THEN /\ total_steps' = Len(r.combinations) * StepsPerProject
                   /\ plugins' \in EntryPoints
                   /\ index' = 1
                   /\ pc' = "loop"
              ELSE /\ pc' = "failed"
                   /\ UNCHANGED <<total_steps, plugins, index>>
    /\ UNCHANGED <<options, selections, base_context, count, request, reply, invoked, pairs,
                   results, current_step, shown, done_disabled, generated, taster_runs>>
    /\ UNCHANGED <<optionVars, inspectorVars>>

\* Variant: `break` in the place of `continue`.
RecordGenerationFailureAndBreak ==
    /\ results' = Append(results, RunResult(combinations[index], FALSE,
                                             <<GenerationFailed>>))
    /\ index' = Len(combinations) + 1
    /\ pc' = "loop"

\* Variant: `continue` left out, the configuration tested all the same.
RecordGenerationFailureAndGoOn ==
    /\ results' = Append(results, RunResult(combinations[index], FALSE,
                                             <<GenerationFailed>>))
    /\ pc' = "test"
    /\ UNCHANGED index

\* Lines 163-168: the failed result, then `continue`.
RecordGenerationFailure ==
    /\ results' = Append(results, RunResult(combinations[index], FALSE,
                                             <<GenerationFailed>>))
    /\ index' = index + 1
    /\ pc' = "loop"

\* Lines 152-168: generator.generate(context) for the next configuration;
\* cookiecutter succeeds or raises, and generate turns the exception into a
\* result with success=False.
GenerateProject ==
    /\ pc = "loop"
    /\ index <= Len(combinations)
    /\ status' = "Generating project"
    /\ shown' = [i |-> index, label |-> FormatContext(heap, combinations[index], options)]
    /\ current_step' = current_step + 1
    /\ \E success \in BOOLEAN :
          /\ generated' = Append(generated, GenerateCall(success))
          /\ IF success
             THEN /\ pc' = "test"
                  /\ UNCHANGED <<results, index>>
             ELSE RecordGenerationFailure
    /\ UNCHANGED <<engineVars, optionVars, inspectorVars, dispatchVars>>
    /\ UNCHANGED <<total_steps, done_disabled, taster_runs>>

\* Lines 170-192: generate_with_info(context) calls generate again; with a
\* project the tasters run, and an exception of run_tasters ends the worker.
TestProject ==
    /\ pc = "test"
    /\ status' = "Testing project"
    /\ shown' = [i |-> index, label |-> FormatContext(heap, combinations[index], options)]
    /\ \E success \in BOOLEAN :
          /\ generated' = Append(generated, GenerateCall(success))
          /\ IF success
             THEN LET r == RunTasters(plugins, TRUE, <<>>)
                  IN  /\ taster_runs' = Append(taster_runs, TasterRun(r))
                      /\ IF r.kind = "raised"
                         THEN /\ pc' = "failed"
                              /\ UNCHANGED <<results, current_step, index>>
                         ELSE /\ results' = Append(results,
                                     RunResult(combinations[index],
                                               AllSuccess(r.value), Messages(r.value)))
                              /\ current_step' = current_step + 1
                              /\ index' = index + 1
                              /\ pc' = "loop"
             ELSE /\ results' = Append(results,
                         RunResult(combinations[index], FALSE, <<NoProjectInfo>>))
                  /\ current_step' = current_step + 1
                  /\ index' = index + 1
                  /\ pc' = "loop"
                  /\ UNCHANGED taster_runs
    /\ UNCHANGED <<engineVars, optionVars, inspectorVars, dispatchVars>>
    /\ UNCHANGED <<total_steps, done_disabled>>

\* Variant: the lines after the loop run without the loop being over.
CompleteExecutionEarly ==
    /\ pc = "loop"
    /\ status' = "Execution complete!"
    /\ done_disabled' = FALSE
    /\ pc' = "complete"
    /\ UNCHANGED <<engineVars, optionVars, inspectorVars, dispatchVars>>
    /\ UNCHANGED <<results, current_step, total_steps, shown, index, generated,
                   taster_runs>>

\* Lines 194-197, after the last configuration.
CompleteExecution ==
    /\ pc = "loop"
    /\ index > Len(combinations)
    /\ status' = "Execution complete!"
    /\ done_disabled' = FALSE
    /\ pc' = "complete"
    /\ UNCHANGED <<engineVars, optionVars, inspectorVars, dispatchVars>>
    /\ UNCHANGED <<results, current_step, total_steps, shown, index, generated,
                   taster_runs>>

RunNext ==
    \/ StartExecution
    \/ GenerateProject
    \/ TestProject
    \/ CompleteExecution

RunSpec == RunInit /\ [][RunNext]_vars

----------------------------------------------------------------------------
(* tui/screens/options.py: OptionsScreen, and the hand-over of its result to
   the execution screen by tui/app.py: _handle_options_result. *)

\* A choice written with console markup, and the text it stands for.
Marked == "[i]a"
MarkedPlain == "a"

\* The values a template can offer as choices.
LabelValues == Values \cup {Marked}

\* checkbox.label.plain: Checkbox(choice, ...) takes a string label as console
\* markup, and .plain is the text of the label without its tags.
Plain(choice) == IF choice = Marked THEN MarkedPlain ELSE choice

\* The texts made of letters, digits, underscores and hyphens only.
IdentifierText == OptionNames \cup Values \cup {MarkedPlain}

\* id=f"checkbox-{name}-{choice}": a widget takes an id only if it is an
\* identifier, and raises BadIdentifier otherwise.
CheckIdentifiers(opts) ==
    \A j \in DOMAIN opts :
        /\ opts[j].name \in IdentifierText
        /\ \A x \in DOMAIN opts[j].choices : opts[j].choices[x] \in IdentifierText

\* The options of a template as _extract_options builds them: distinct
\* names, the first choice as the default; the choices of an option differ,
\* as the ids of its checkboxes must.
ScreenOptions ==
    {TemplateOption(n, c, c[1]) :
        n \in OptionNames,
        c \in {c \in SeqsUpTo(LabelValues, 1, MaxChoices) :
                  \A x, y \in DOMAIN c : c[x] = c[y] => x = y}}

ScreenOptionLists ==
    {os \in SeqsUpTo(ScreenOptions, 0, MaxOptions) :
        \A i, j \in DOMAIN os : os[i].name = os[j].name => i = j}

\* OptionGroup.compose: the checkbox of the default is ticked.
DefaultsChecked(opts) ==
    UNION {{<<j, x>> : x \in {x \in DOMAIN opts[j].choices :
                                  opts[j].choices[x] = opts[j].default}} :
           j \in DOMAIN opts}

\* The inner loop of _get_selections: the labels of the ticked checkboxes
\* of option j, from checkbox x on.
RECURSIVE SelectedValues(_, _, _, _)
SelectedValues(opts, chk, j, x) ==
    IF x > Len(opts[j].choices) THEN <<>>
    ELSE (IF <<j, x>> \in chk THEN <<Plain(opts[j].choices[x])>> ELSE <<>>)
            \o SelectedValues(opts, chk, j, x + 1)

\* _get_selections, from option group j on: an item for every group with a
\* ticked checkbox.
RECURSIVE GetSelectionsFrom(_, _, _)
GetSelectionsFrom(opts, chk, j) ==
    IF j > Len(opts) THEN <<>>
    ELSE LET selected_values == SelectedValues(opts, chk, j, 1)
         IN  (IF selected_values # <<>>
              THEN <<Item(opts[j].name, selected_values)>> ELSE <<>>)
                \o GetSelectionsFrom(opts, chk, j + 1)

GetSelections(opts, chk) == GetSelectionsFrom(opts, chk, 1)

\* Variant: an option without an item left without one.
UseDefaultsNever(opts, sels, j) == sels

\* The loop `selections[option.name] = [option.default]` over the options
\* without an item, or with an empty one, from option j on.
RECURSIVE UseDefaults(_, _, _)
UseDefaults(opts, sels, j) ==
    IF j > Len(opts) THEN sels
    ELSE IF ~InSelections(opts[j].name, sels)
         THEN UseDefaults(opts, Append(sels, Item(opts[j].name, <<opts[j].default>>)),
                          j + 1)
         ELSE IF Len(Lookup(sels, opts[j].name)) = 0
         THEN UseDefaults(opts,
                  [i \in DOMAIN sels |->
                      IF sels[i].name = opts[j].name
                      THEN Item(opts[j].name, <<opts[j].default>>) ELSE sels[i]],
                  j + 1)
         ELSE UseDefaults(opts, sels, j + 1)

\* _update_combination_count: the number the screen displays.
CombinationCount(opts, chk) ==
    EstimateCombinationCount(opts, UseDefaults(opts, GetSelections(opts, chk), 1))

\* The options screen as __init__ leaves it, before it is composed, over the
\* template context that the application keeps for the run.
OptionsScreenInit ==
    /\ options \in ScreenOptionLists
    /\ ticked = {}
    /\ count = 0
    /\ selections = <<>>
    /\ base_context = 1
    /\ heap = <<TemplateContext>>
    /\ outcome = NotCalled
    /\ combinations = <<>>
    /\ constructed = <<>>
    /\ pc = "compose"
    /\ DispatchIdle
    /\ InspectorIdle
    /\ ScreenInit

\* compose and on_mount: the checkboxes are built, the defaults ticked, and
\* the count displayed; a checkbox whose id is no identifier raises and the
\* screen never shows.
ComposeScreen ==
    /\ pc = "compose"
    /\ IF CheckIdentifiers(options)
       THEN /\ ticked' = DefaultsChecked(options)
            /\ count' = CombinationCount(options, ticked')
            /\ pc' = "screen"
       ELSE /\ pc' = "crashed"
            /\ UNCHANGED <<ticked, count>>
    /\ UNCHANGED <<options, selections, base_context, heap, outcome, combinations>>
    /\ UNCHANGED <<constructed, dispatchVars, runVars, inspectorVars>>

\* handle_checkbox_changed, after the user has ticked or unticked a checkbox
ToggleCheckbox ==
    /\ pc \in {"screen", "ignored"}
    /\ \E j \in DOMAIN options : \E x \in DOMAIN options[j].choices :
          ticked' = IF <<j, x>> \in ticked THEN ticked \ {<<j, x>>}
                     ELSE ticked \cup {<<j, x>>}
    /\ count' = CombinationCount(options, ticked')
    /\ pc' = "screen"
    /\ UNCHANGED <<options, selections, base_context, heap, outcome, combinations>>
    /\ UNCHANGED <<constructed, dispatchVars, runVars, inspectorVars>>

\* handle_generate: without a ticked checkbox it returns and the screen
\* stays; else it dismisses with the selections, and _handle_options_result
\* pushes the execution screen with them.
PressGenerate ==
    /\ pc \in {"screen", "ignored"}
    /\ LET sels == GetSelections(options, ticked)
       IN  IF sels = <<>>
           THEN /\ pc' = "ignored"
                /\ UNCHANGED selections
           ELSE /\ selections' = UseDefaults(options, sels, 1)
                /\ pc' = "mount"
    /\ UNCHANGED <<options, base_context, heap, count, outcome, combinations>>
    /\ UNCHANGED <<optionVars, dispatchVars, runVars, inspectorVars>>

OptionsScreenNext ==
    \/ ComposeScreen
    \/ ToggleCheckbox
    \/ PressGenerate
    \/ StartExecution

OptionsScreenSpec == OptionsScreenInit /\ [][OptionsScreenNext]_vars

----------------------------------------------------------------------------
(* core/template.py: TemplateInspector. *)

\* The template sources: a local path, or the URL of a repository.
Sources == [kind : {"path", "url"}, n : 1 .. MaxSources]

LocalDir(n) == Path("local", n, "")
CloneDir(n) == Path("clone", n, "")
RepoDir(clone_dir) == Path(clone_dir.root, clone_dir.n, "repo")

\* The directories at or below directory d.
Under(dirs, d) == {p \in dirs : p.root = d.root /\ p.n = d.n}

\* TemplateInspector.__init__
TemplateInspector(template_source) ==
    [template_source |-> template_source, template_dir |-> NoPath, context |-> FALSE]

\* Path(repo_dir).resolve(): the paths of the model are resolved already.
Resolve(path) == path

Ended(call, kind, dir) == [call |-> call, kind |-> kind, dir |-> dir]

\* determine_repo_dir(template, clone_to_dir=clone_dir): a repository URL is
\* cloned into clone_dir, unless the clone fails; a local path is taken as it
\* is if it holds a template.  The reply names the directory, and the
\* directories that exist afterwards.
DetermineRepoDir(dirs, template, clone_dir, cloned) ==
    IF template.kind = "url"
    THEN IF cloned
         THEN [kind |-> "returned", dir |-> RepoDir(clone_dir),
               dirs |-> dirs \cup {RepoDir(clone_dir)}]
         ELSE [kind |-> "raised", dir |-> NoPath, dirs |-> dirs]
    ELSE IF LocalDir(template.n) \in dirs
         THEN [kind |-> "returned", dir |-> LocalDir(template.n), dirs |-> dirs]
         ELSE [kind |-> "raised", dir |-> NoPath, dirs |-> dirs]

\* The exit of `with tempfile.TemporaryDirectory() as clone_dir`: the
\* directory is removed with all it holds.
LeaveTemporaryDirectory(dirs, clone_dir) == dirs \ Under(dirs, clone_dir)

\* The inspector before any call, over the local templates that exist.
InspectorInit ==
    /\ disk \in [dirs : SUBSET {LocalDir(n) : n \in 1 .. MaxSources}, made : {0}]
    /\ inspector \in {TemplateInspector(src) : src \in Sources}
    /\ inspected = NoCall
    /\ pc = "idle"
    /\ options = <<>>
    /\ selections = <<>>
    /\ base_context = None
    /\ heap = <<>>
    /\ count = 0
    /\ outcome = NotCalled
    /\ combinations = <<>>
    /\ OptionIdle
    /\ DispatchIdle
    /\ ScreenInit

\* TemplateInspector(template_source), in place of the one before.
NewInspector ==
    /\ pc = "idle"
    /\ \E src \in Sources : inspector' = TemplateInspector(src)
    /\ inspected' = NoCall
    /\ UNCHANGED <<pc, disk, engineVars, optionVars, dispatchVars, runVars>>

\* inspect(), up to the return of _get_template_dir.
GetTemplateDir ==
    /\ pc = "idle"
    /\ IF inspector.template_dir # NoPath
       THEN /\ inspected' = Ended("_get_template_dir", "returned", inspector.template_dir)
            /\ pc' = "dir"
            /\ UNCHANGED <<disk, inspector>>
       ELSE /\ disk.made < MaxCloneDirs
            /\ \E cloned \in BOOLEAN :
                  LET clone_dir == CloneDir(disk.made + 1)
                      found == DetermineRepoDir(disk.dirs \cup {clone_dir},
                                   inspector.template_source, clone_dir, cloned)
                  IN  /\ disk' = [dirs |-> LeaveTemporaryDirectory(found.dirs, clone_dir),
                                  made |-> disk.made + 1]
                      /\ IF found.kind = "returned"
                         THEN /\ inspector' = [inspector EXCEPT
                                                  !.template_dir = Resolve(found.dir)]
                              /\ inspected' = Ended("_get_template_dir", "returned",
                                                    Resolve(found.dir))
                              /\ pc' = "dir"
                         ELSE /\ inspected' = Ended("_get_template_dir", "raised", NoPath)
                              /\ pc' = "idle"
                              /\ UNCHANGED inspector
    /\ UNCHANGED <<engineVars, optionVars, dispatchVars, runVars>>

\* _load_context(template_dir), the next step of inspect(): the context kept
\* from an earlier call, or cookiecutter.json of the directory, which may
\* not be there, or not be JSON.
LoadContext ==
    /\ pc = "dir"
    /\ IF inspector.context
       THEN /\ inspected' = Ended("_load_context", "returned", inspected.dir)
            /\ UNCHANGED inspector
       ELSE IF inspected.dir \notin disk.dirs
       THEN /\ inspected' = Ended("_load_context", "not_found", inspected.dir)
            /\ UNCHANGED inspector
       ELSE \E valid \in BOOLEAN :
               IF valid
               THEN /\ inspector' = [inspector EXCEPT !.context = TRUE]
                    /\ inspected' = Ended("_load_context", "returned", inspected.dir)
               ELSE /\ inspected' = Ended("_load_context", "invalid", inspected.dir)
                    /\ UNCHANGED inspector
    /\ pc' = "idle"
    /\ UNCHANGED <<disk, engineVars, optionVars, dispatchVars, runVars>>

InspectorNext ==
    \/ NewInspector
    \/ GetTemplateDir
    \/ LoadContext

InspectorSpec == InspectorInit /\ [][InspectorNext]_vars

----------------------------------------------------------------------------
(* The vocabulary of the properties, stated on the arguments themselves. *)

\* The contexts the last call returned, by value.
Contexts == Deref(heap, combinations)

\* The base context the caller passed, by value.
BaseDict == IF base_context = None THEN EmptyDict ELSE heap[base_context]

Declared(name) == \E j \in DOMAIN options : options[j].name = name

\* Every key of selections names a declared option.
KeysDeclared == \A i \in DOMAIN selections : Declared(selections[i].name)

\* Every selected value is one of the choices of the option its key names.
ValuesValid ==
    \A i \in DOMAIN selections : \A j \in DOMAIN options :
        options[j].name = selections[i].name
            => \A x \in DOMAIN selections[i].values :
                  \E y \in DOMAIN options[j].choices :
                      options[j].choices[y] = selections[i].values[x]

\* The values selected for the j-th declared option: none when it is absent.
Selected(j) ==
    IF \E i \in DOMAIN selections : selections[i].name = options[j].name
    THEN LET i == CHOOSE i \in DOMAIN selections : selections[i].name = options[j].name
         IN  selections[i].values
    ELSE <<>>

\* The declared options that vary, by position in the declaration.
Varies == {j \in DOMAIN options : Selected(j) # <<>>}

RECURSIVE ProductOfLengths(_)
ProductOfLengths(J) ==
    IF J = {} THEN 1
    ELSE LET j == CHOOSE j \in J : TRUE
         IN  Len(Selected(j)) * ProductOfLengths(J \ {j})

\* The number of consecutive tuples over which the j-th option keeps its value.
Stride(j) == ProductOfLengths({k \in Varies : k > j})

\* The value of the j-th option in the t-th tuple of the cartesian product.
TupleValue(t, j) == Selected(j)[(((t - 1) \div Stride(j)) % Len(Selected(j))) + 1]

\* base_context merged with every option's default.
Defaults ==
    [k \in DOMAIN BaseDict \cup {options[j].name : j \in DOMAIN options} |->
        IF Declared(k)
        THEN options[CHOOSE j \in DOMAIN options : options[j].name = k].default
        ELSE BaseDict[k]]

Called == pc \in {"returned", "raised"}

----------------------------------------------------------------------------
(* Properties of generate_combinations. *)

\* C1: when every key of selections names a declared option and every
\* selected value is a valid choice, the call returns and the number of
\* contexts it returns is the number estimate_combination_count gave.
C1_CountEqualsEstimate ==
    (Called /\ KeysDeclared /\ ValuesValid)
        => (pc = "returned" /\ Len(combinations) = count)

\* A call with an empty list for one option and a repeated value for another.
C1_Witness ==
    /\ pc = "returned"
    /\ Len(combinations) = 2
    /\ \E i, k \in DOMAIN selections :
          /\ selections[i].values = <<>>
          /\ Len(selections[k].values) = 2
          /\ selections[k].values[1] = selections[k].values[2]

\* C2: a call that returns with at least one varying option returns one
\* context per tuple of the cartesian product of the varying options' lists,
\* the options in declaration order and the last one cycling fastest: the
\* t-th context gives the j-th varying option the value of the t-th tuple.
C2_CartesianOrder ==
    (pc = "returned" /\ Varies # {})
        => /\ Len(combinations) = ProductOfLengths(Varies)
           /\ \A t \in DOMAIN combinations : \A j \in Varies :
                 /\ options[j].name \in DOMAIN Contexts[t]
                 /\ Contexts[t][options[j].name] = TupleValue(t, j)

\* Two options of two values each, selected in the order opposite to their
\* declaration: four contexts.
C2_Witness ==
    /\ pc = "returned"
    /\ Len(combinations) = 4
    /\ Len(options) = 2
    /\ Len(selections) = 2
    /\ selections[1].name = options[2].name
    /\ selections[2].name = options[1].name
    /\ selections[1].values = <<"a", "b">>
    /\ selections[2].values = <<"b", "a">>

\* C3: with an empty selection map the call always returns; and a call that
\* returns with no varying option returns exactly one context, base_context
\* merged with every option's default.
C3_OnlyDefaults ==
    /\ (Called /\ selections = <<>>) => pc = "returned"
    /\ (Called /\ KeysDeclared /\ Varies = {}) => pc = "returned"
    /\ (pc = "returned" /\ Varies = {})
          => (Len(combinations) = 1 /\ Contexts[1] = Defaults)

\* No option varies, two are declared, and base_context holds a key of its
\* own and a key an option overrides.
C3_Witness ==
    /\ pc = "returned"
    /\ Varies = {}
    /\ Len(options) = 2
    /\ base_context # None
    /\ DOMAIN BaseDict = BaseKeys
    /\ Contexts[1]["db"] # BaseValue

\* C4: every returned context has every declared option name as a key, and
\* an option absent from selections or mapped to an empty list holds its
\* default there.
C4_FixedOptionsHoldDefault ==
    pc = "returned"
        => \A t \in DOMAIN combinations : \A j \in DOMAIN options :
              /\ options[j].name \in DOMAIN Contexts[t]
              /\ Selected(j) = <<>> => Contexts[t][options[j].name] = options[j].default

\* One option varies over two values while the other is mapped to an empty
\* list and has a default that is not its first choice.
C4_Witness ==
    /\ pc = "returned"
    /\ Len(combinations) = 2
    /\ \E j \in DOMAIN options :
          /\ \E i \in DOMAIN selections :
                selections[i].name = options[j].name /\ selections[i].values = <<>>
          /\ options[j].default # options[j].choices[1]
          /\ Contexts[2][options[j].name] = options[j].default

\* C5: in every returned context a base_context key that is no option name
\* keeps its base_context value, and a key that is also an option name holds
\* the option's assignment: one of its selected values, or its default when
\* it does not vary.
C5_BaseContextMerge ==
    pc = "returned"
        => \A t \in DOMAIN combinations : \A k \in DOMAIN BaseDict :
              /\ k \in DOMAIN Contexts[t]
              /\ ~Declared(k) => Contexts[t][k] = BaseDict[k]
              /\ \A j \in DOMAIN options :
                    options[j].name = k
                       => IF j \in Varies
                          THEN Contexts[t][k] \in Range(Selected(j))
                          ELSE Contexts[t][k] = options[j].default

\* base_context holds "db" and "project"; "db" is a varying option.
C5_Witness ==
    /\ pc = "returned"
    /\ base_context # None
    /\ DOMAIN BaseDict = BaseKeys
    /\ \E j \in Varies : options[j].name = "db"
    /\ Len(combinations) = 2
    /\ Contexts[1]["db"] = "a"
    /\ Contexts[2]["db"] = "b"
    /\ Contexts[2]["project"] = BaseValue

\* The choices of the declared option a selection key names.
ChoicesOf(name) ==
    options[CHOOSE j \in DOMAIN options : options[j].name = name].choices

\* The i-th item of selections selects a value its option does not offer.
HasInvalidValue(i) ==
    /\ Declared(selections[i].name)
    /\ \E x \in DOMAIN selections[i].values :
          selections[i].values[x] \notin Range(ChoicesOf(selections[i].name))

\* The i-th item of selections is one the validation rejects.
Offends(i) == ~Declared(selections[i].name) \/ HasInvalidValue(i)

\* No item before the i-th, in the iteration order of selections, offends.
FirstOffender(i) == Offends(i) /\ \A k \in 1..(i - 1) : ~Offends(k)

\* The offending values of the i-th item, in the order selected.
OffendingValues(i) ==
    LET values == selections[i].values
        bad == {x \in DOMAIN values : values[x] \notin Range(ChoicesOf(selections[i].name))}
        nth(n) == CHOOSE x \in bad : Cardinality({y \in bad : y < x}) = n - 1
    IN  [n \in 1..Cardinality(bad) |-> values[nth(n)]]

\* C6 (as amended): a call whose selections hold a key that names no declared
\* option always fails and returns no contexts; the error is the
\* unknown-option error naming that key when no earlier key of selections is
\* itself rejected, and otherwise the error of the first rejected key.
C6_UnknownOptionFails ==
    Called => \A i \in DOMAIN selections :
        ~Declared(selections[i].name)
            => /\ pc = "raised"
               /\ combinations = <<>>
               /\ outcome.kind \in {"unknown_option", "invalid_choice"}
               /\ \E k \in 1..i : FirstOffender(k) /\ outcome.option_name = selections[k].name
               /\ FirstOffender(i) => outcome = UnknownOption(selections[i].name)

\* An unknown key after a declared option with valid, non-empty values.
C6_Witness ==
    /\ pc = "raised"
    /\ Len(selections) = 2
    /\ Declared(selections[1].name)
    /\ selections[1].values # <<>>
    /\ ~Offends(1)
    /\ ~Declared(selections[2].name)
    /\ outcome.kind = "unknown_option"
    /\ outcome.option_name = selections[2].name

\* C6 as stated: whatever the other keys hold, the error is the
\* unknown-option error naming the undeclared key.
C6_AlwaysUnknownOptionError ==
    Called => \A i \in DOMAIN selections :
        ~Declared(selections[i].name)
            => /\ pc = "raised"
               /\ combinations = <<>>
               /\ outcome = UnknownOption(selections[i].name)

\* C7 (as amended): a call whose selections give a declared option a value
\* outside its choices always fails and returns no contexts; the error is the
\* invalid-choice error of that option, listing every offending value of it
\* and the option's choices, when no earlier key of selections is itself
\* rejected, and otherwise the error of the first rejected key.
C7_InvalidChoiceFails ==
    Called => \A i \in DOMAIN selections :
        HasInvalidValue(i)
            => /\ pc = "raised"
               /\ combinations = <<>>
               /\ outcome.kind \in {"unknown_option", "invalid_choice"}
               /\ \E k \in 1..i : FirstOffender(k) /\ outcome.option_name = selections[k].name
               /\ FirstOffender(i)
                     => outcome = InvalidChoice(selections[i].name, OffendingValues(i),
                                                ChoicesOf(selections[i].name))

\* Two offending values for an option selected after a valid one.
C7_Witness ==
    /\ pc = "raised"
    /\ Len(selections) = 2
    /\ ~Offends(1)
    /\ selections[1].values # <<>>
    /\ HasInvalidValue(2)
    /\ outcome.kind = "invalid_choice"
    /\ outcome.option_name = selections[2].name
    /\ Len(outcome.invalid_values) = 2
    /\ outcome.choices = ChoicesOf(selections[2].name)

\* C7 as stated: whatever the other keys hold, the error is the
\* invalid-choice error of the option with the invalid value.
C7_AlwaysInvalidChoiceError ==
    Called => \A i \in DOMAIN selections :
        HasInvalidValue(i)
            => /\ pc = "raised"
               /\ outcome = InvalidChoice(selections[i].name, OffendingValues(i),
                                          ChoicesOf(selections[i].name))

\* C8: every returned context holds, under every declared option's name, one
\* of that option's choices, whatever base_context holds under that name.
C8_ValuesWithinChoices ==
    pc = "returned"
        => \A t \in DOMAIN combinations : \A j \in DOMAIN options :
              /\ options[j].name \in DOMAIN Contexts[t]
              /\ Contexts[t][options[j].name] \in Range(options[j].choices)

\* base_context holds, under the name of an option offering one value only,
\* a value that is none of its choices; the option is left at its default
\* while another one varies.
C8_Witness ==
    /\ pc = "returned"
    /\ Len(combinations) = 2
    /\ "db" \in DOMAIN BaseDict
    /\ \E j \in DOMAIN options :
          /\ options[j].name = "db"
          /\ Len(options[j].choices) = 1
          /\ BaseDict["db"] \notin Range(options[j].choices)
          /\ j \notin Varies
          /\ Contexts[1]["db"] = options[j].choices[1]

\* selections with its items in the order p.
Reordered(p) == [i \in DOMAIN selections |-> selections[p[i]]]

\* What a call with the items of selections in the order p gives.
CallReordered(p) == GenerateCombinations(heap, options, Reordered(p), base_context)

\* The order that leaves selections as it is.
SameOrder == [i \in DOMAIN selections |-> i]

\* C9 (as amended): another call with the same arguments, made after the
\* first has returned or raised, ends as the first did, with the same contexts
\* in the same order; and whether the call fails, and the ordered list of
\* contexts it returns, do not depend on the order of the keys of selections.
\* (Which error a failing call reports does: it is the error of the first
\* rejected key in that order.)
C9_Deterministic ==
    Called =>
        /\ CallReordered(SameOrder).outcome = outcome
        /\ \A p \in Permutations(DOMAIN selections) :
              LET r == CallReordered(p)
              IN  /\ (r.outcome.kind = "ok") <=> (outcome.kind = "ok")
                  /\ Deref(r.heap, r.combinations) = Contexts
                  /\ \A t \in DOMAIN r.combinations :
                         r.combinations[t] \notin DOMAIN heap
                  /\ r.outcome.kind # "ok"
                        => \E k \in DOMAIN selections :
                              /\ Offends(k)
                              /\ \A n \in DOMAIN selections :
                                    (p[n] # k /\ Offends(p[n]))
                                       => \E m \in 1..(n - 1) : p[m] = k
                              /\ r.outcome.option_name = selections[k].name

\* Two varying options selected in the order opposite to their declaration:
\* the call with the keys in declaration order returns the same four contexts.
C9_Witness ==
    /\ pc = "returned"
    /\ Len(combinations) = 4
    /\ Len(selections) = 2
    /\ Len(options) = 2
    /\ selections[1].name = options[2].name
    /\ Contexts[1] # Contexts[2]
    /\ \E p \in Permutations(DOMAIN selections) :
          /\ p # SameOrder
          /\ Deref(CallReordered(p).heap, CallReordered(p).combinations) = Contexts

\* C9 as stated: the error too is the same for every order of the keys.
C9_SameOutcomeInAnyKeyOrder ==
    Called => \A p \in Permutations(DOMAIN selections) :
        LET r == CallReordered(p)
        IN  /\ r.outcome = outcome
            /\ Deref(r.heap, r.combinations) = Contexts

\* C10: a call leaves options, selections and base_context as they were (and
\* every dictionary that existed before it); the contexts it returns are
\* dictionaries of their own, so that setting a key in one of them changes
\* neither another returned context nor base_context.
C10_Frame ==
    [][/\ (pc = "estimated" /\ pc' # pc)
          => /\ options' = options
             /\ selections' = selections
             /\ base_context' = base_context
             /\ \A r \in DOMAIN heap : heap'[r] = heap[r]
             /\ \A t \in DOMAIN combinations' : combinations'[t] \notin DOMAIN heap
             /\ \A t, u \in DOMAIN combinations' :
                   combinations'[t] = combinations'[u] => t = u
       /\ pc' = "mutated"
          => /\ DOMAIN heap' = DOMAIN heap
             /\ base_context # None => heap'[base_context] = heap[base_context]
             /\ \E t \in DOMAIN combinations :
                   /\ heap'[combinations[t]] # heap[combinations[t]]
                   /\ \A u \in DOMAIN combinations \ {t} :
                         heap'[combinations[u]] = heap[combinations[u]]
      ]_vars

\* A key set in the first of two returned contexts: the second one and
\* base_context still hold what they held.
C10_Witness ==
    /\ pc = "mutated"
    /\ Len(combinations) = 2
    /\ base_context # None
    /\ "db" \in DOMAIN BaseDict
    /\ BaseDict["db"] = BaseValue
    /\ heap[combinations[1]]["db"] = MutatedValue
    /\ heap[combinations[2]]["db"] \in Values

----------------------------------------------------------------------------
(* Properties of estimate_combination_count. *)

\* The items of selections that count: a declared name with a non-empty list.
Counted == {i \in DOMAIN selections :
               Declared(selections[i].name) /\ selections[i].values # <<>>}

RECURSIVE ProductOfSelected(_)
ProductOfSelected(I) ==
    IF I = {} THEN 1
    ELSE LET i == CHOOSE i \in I : TRUE
         IN  Len(selections[i].values) * ProductOfSelected(I \ {i})

\* C11: for any options and any selection map - unknown names, empty lists
\* and values outside the choices included - estimate_combination_count
\* returns the product of the lengths of the non-empty lists of the known
\* option names, and 1 when there are none.
C11_EstimateIsProduct ==
    pc # "input"
        => /\ count = ProductOfSelected(Counted)
           /\ Counted = {} => count = 1

\* The estimate of a map with an unknown name holding a value and a known
\* name holding two values that are not among its choices.
C11_Witness ==
    /\ pc = "estimated"
    /\ count = 2
    /\ Len(selections) = 2
    /\ \E i, k \in DOMAIN selections :
          /\ ~Declared(selections[i].name)
          /\ selections[i].values # <<>>
          /\ HasInvalidValue(k)
          /\ Len(selections[k].values) = 2

----------------------------------------------------------------------------
(* Properties of TemplateOption. *)

\* C12: TemplateOption(...) raises ValueError when choices is empty or when
\* default is not a member of choices, and returns the option otherwise; so
\* the default of every option that was constructed is one of its choices.
C12_ConstructionValidates ==
    \A k \in DOMAIN constructed :
        LET call == constructed[k]
        IN  /\ call.raised <=>
                  \/ Len(call.self.choices) = 0
                  \/ \A x \in DOMAIN call.self.choices :
                         call.self.choices[x] # call.self.default
            /\ ~call.raised =>
                  \E x \in DOMAIN call.self.choices :
                      call.self.choices[x] = call.self.default

\* One call refused for a default outside non-empty choices and one call
\* that returned an option.
C12_Witness ==
    /\ \E k \in DOMAIN constructed :
          /\ constructed[k].raised
          /\ constructed[k].self.choices # <<>>
    /\ \E k \in DOMAIN constructed : ~constructed[k].raised

----------------------------------------------------------------------------
(* Properties of the PluginManager. *)

Replied(method) == pc = "replied" /\ request.method = method

\* The registered tasters by identity, in the order of registration.
Registered == [k \in 1..Len(plugins) |-> k]

Reverse(s) == [k \in 1..Len(s) |-> s[Len(s) + 1 - k]]

\* The plugins that built the results of the reply, in the order of the reply.
Producers == [x \in DOMAIN reply.value |-> reply.value[x].plugin]

NamesOf(ks) == [x \in DOMAIN ks |-> plugins[ks[x]].name]

Applicable(k) == plugins[k].can_handle

\* Plugin k declares one of the names the caller listed.
Listed(k) == \E x \in DOMAIN request.taster_names :
                 request.taster_names[x] = plugins[k].name

SomeTasterRaises == \E k \in DOMAIN plugins : plugins[k].test = Raises

\* C13: run_tasters(project) with taster_names omitted returns exactly
\* the results of the tasters whose can_handle returned true, each once:
\* none built by a taster whose can_handle returned false, and none missing.
C13_ExactlyApplicable ==
    (Replied("run_tasters") /\ request.omitted /\ reply.kind = "returned")
        => /\ \A k \in DOMAIN plugins :
                 Applicable(k) <=> \E x \in DOMAIN Producers : Producers[x] = k
           /\ \A x, y \in DOMAIN Producers : Producers[x] = Producers[y] => x = y

\* C14: when the test_project of a registered taster raises, run_tasters
\* still returns a list: the raising taster is in it with status error, and
\* every other taster the call covers is in it with the status it reported.
C14_RaisingTasterIsolated ==
    (Replied("run_tasters") /\ SomeTasterRaises)
        => /\ reply.kind = "returned"
           /\ \A k \in DOMAIN plugins :
                 (IF request.omitted THEN Applicable(k) ELSE Listed(k))
                     => \E x \in DOMAIN reply.value :
                           /\ reply.value[x].plugin = k
                           /\ reply.value[x].status =
                                 IF plugins[k].test = Raises THEN "error"
                                 ELSE plugins[k].test

\* C15 as stated: get_taster_names returns the declared names in the
\* order of registration, and get_applicable_tasters returns, in that order,
\* the names of the tasters whose can_handle returned true.
C15_NamesInRegistrationOrder ==
    /\ Replied("get_taster_names")
          => reply = Returned(NamesOf(Registered))
    /\ Replied("get_applicable_tasters")
          => reply = Returned(NamesOf(SelectSeq(Registered, Applicable)))

\* C15: get_taster_names returns the declared name of every registered
\* taster, the last registered first; get_applicable_tasters returns, in that
\* same order, the names of the tasters whose can_handle returned true.
C15_NamesInReverseRegistrationOrder ==
    /\ Replied("get_taster_names")
          => reply = Returned(NamesOf(Reverse(Registered)))
    /\ Replied("get_applicable_tasters")
          => reply = Returned(NamesOf(Reverse(SelectSeq(Registered, Applicable))))

\* Two applicable tasters of different names, named last registered first.
C15_Witness ==
    /\ Replied("get_applicable_tasters")
    /\ Len(plugins) = 2
    /\ plugins[1].name # plugins[2].name
    /\ reply.value = <<plugins[2].name, plugins[1].name>>

\* C16 as stated: run_tasters with an explicit name list returns the
\* results of the tasters whose name is listed, in the order of registration,
\* whatever the order of the list and whatever unregistered names it holds.
C16_FilteredInRegistrationOrder ==
    (Replied("run_tasters") /\ ~request.omitted /\ ~SomeTasterRaises)
        => /\ reply.kind = "returned"
           /\ Producers = SelectSeq(Registered, Listed)

\* C16: run_tasters with an explicit name list returns the results of
\* the tasters whose name is listed and no other, the last registered first,
\* whatever the order of the list and whatever unregistered names it holds.
C16_FilteredInReverseRegistrationOrder ==
    (Replied("run_tasters") /\ ~request.omitted /\ ~SomeTasterRaises)
        => /\ reply.kind = "returned"
           /\ Producers = Reverse(SelectSeq(Registered, Listed))

\* A list naming an unregistered taster, then the first registered, then the
\* second; the results come back second registered first, and a list that
\* leaves out one of two registered names drops its result.
C16_Witness ==
    /\ Replied("run_tasters")
    /\ ~request.omitted
    /\ Len(plugins) = 2
    /\ plugins[1].name # plugins[2].name
    /\ request.taster_names = <<UnregisteredName, plugins[1].name, plugins[2].name>>
    /\ Producers = <<2, 1>>

----------------------------------------------------------------------------
(* Properties of the execution run. *)

Configurations == 1..Len(combinations)

\* The calls of the generator for configuration c, in the order made.
GeneratedFor(c) ==
    SelectSeq(generated, LAMBDA g : g.configuration = c)

\* The generation step of configuration c (line 159) has been made and failed.
GenerationFailedFor(c) ==
    /\ GeneratedFor(c) # <<>>
    /\ ~GeneratedFor(c)[1].success

\* The generation step of configuration c has been made and succeeded.
GenerationSucceededFor(c) ==
    /\ GeneratedFor(c) # <<>>
    /\ GeneratedFor(c)[1].success

\* The results run_tasters returned for the project of configuration c.
TasterResultsFor(c) ==
    {r \in UNION {Range(taster_runs[t].reply.value) :
                     t \in {u \in DOMAIN taster_runs :
                               taster_runs[u].configuration = c}} : TRUE}

Complete ==
    /\ pc = "complete"
    /\ status = "Execution complete!"
    /\ ~done_disabled

\* C17: when the run is complete, results holds one entry per expanded
\* configuration, and the i-th entry carries the i-th configuration.
C17_OneResultPerConfiguration ==
    pc = "complete"
        => /\ Len(results) = Len(combinations)
           /\ \A c \in Configurations : results[c].context = combinations[c]

\* A complete run over two configurations, one whose generation failed and one
\* that the tasters tested.
C17_Witness ==
    /\ Complete
    /\ Len(combinations) = 2
    /\ GenerationFailedFor(1)
    /\ Len(taster_runs) = 1
    /\ Len(results) = 2

\* C18: once the generation step of a configuration has failed, the run
\* holds for it a failed result with the one line that reports the generation
\* error, has called no taster for it and has gone on to the next
\* configuration; the results up to it are those of the configurations up to
\* it, in order.
C18_GenerationFailureRecorded ==
    \A c \in Configurations :
        GenerationFailedFor(c)
            => /\ Len(results) >= c
               /\ results[c].success = FALSE
               /\ results[c].messages = <<GenerationFailed>>
               /\ Len(results[c].messages) = 1
               /\ \A t \in DOMAIN taster_runs : taster_runs[t].configuration # c
               /\ Len(GeneratedFor(c)) = 1
               /\ index > c
               /\ pc \in {"loop", "test", "complete", "failed"}
               /\ \A b \in 1..c : results[b].context = combinations[b]

\* Generation succeeded for the first configuration and failed for the second:
\* two results, of the first and of the second.
C18_Witness ==
    /\ Len(combinations) = 2
    /\ GenerationSucceededFor(1)
    /\ GenerationFailedFor(2)
    /\ Len(results) = 2
    /\ results[1].messages # <<GenerationFailed>>
    /\ results[2].messages = <<GenerationFailed>>

\* C19: for a configuration whose generation step succeeded, the success
\* flag recorded is true exactly when every result run_tasters returned for
\* it has status success, and so it is true when run_tasters returned none.
C19_SuccessIffAllTastersSucceed ==
    \A c \in Configurations :
        (GenerationSucceededFor(c) /\ Len(results) >= c)
            => (results[c].success
                   <=> \A r \in TasterResultsFor(c) : r.status = "success")

\* C20: the worker of a run whose combinations were expanded ends only
\* in the complete state - status 'Execution complete!', Done enabled - with
\* one result per configuration, whatever the generator and the tasters do.
C20_RunEndsComplete ==
    (outcome.kind = "ok" /\ pc \in {"complete", "failed"})
        => /\ Complete
           /\ Len(results) = Len(combinations)

\* generate_combinations has refused the selections of the run.
Rejected == outcome.kind \in {"unknown_option", "invalid_choice"}

\* C21: when generate_combinations rejects the selections - an unknown
\* option or an invalid choice - the run calls the project generator for no
\* configuration and records no result.
C21_RejectionStopsRun ==
    Rejected
        => /\ generated = <<>>
           /\ results = <<>>
           /\ taster_runs = <<>>

\* A run ended by the rejection of an unknown option name.
C21_Witness ==
    /\ pc = "failed"
    /\ Rejected
    /\ status = "Generating combinations..."
    /\ \E k \in DOMAIN selections : ~Declared(selections[k].name)

----------------------------------------------------------------------------
(* Properties of the hook calls of the PluginManager. *)

\* C22: every call of run_tasters runs test_project of every registered
\* taster, once each - of tasters whose can_handle returned false and of
\* tasters that taster_names does not name as well - and the results are
\* filtered only after that.
C22_EveryTasterInvoked ==
    Replied("run_tasters")
        => /\ \A k \in DOMAIN plugins : \E x \in DOMAIN invoked : invoked[x] = k
           /\ Len(invoked) = Len(plugins)

----------------------------------------------------------------------------
(* Properties of the progress and the order of the execution run. *)

\* The configurations whose generation step (line 159) has been made.
GenerationStepsMade == {c \in Configurations : GeneratedFor(c) # <<>>}

\* The configurations whose validation step (lines 176-185) has been made
\* and has recorded its result.
ValidationStepsMade ==
    {c \in Configurations : Len(GeneratedFor(c)) = 2 /\ Len(results) >= c}

\* C23: in a run the step counter stands at one per generation step
\* made plus one per validation step made, so it only increases, by one a
\* step; it never exceeds the total of 2 x the number of configurations, and
\* it equals that total when the run is complete.
C23_StepCounter ==
    outcome.kind = "ok"
        => /\ total_steps = 2 * Len(combinations)
           /\ current_step = Cardinality(GenerationStepsMade)
                                + Cardinality(ValidationStepsMade)
           /\ current_step <= total_steps
           /\ pc = "complete" => current_step = total_steps

\* C24: a run is one forward pass. The generator is called for the
\* configurations in list order; it is called for a configuration only when
\* every configuration before it has its result; the results are those of the
\* first configurations, one each, in order, so none is processed twice; and
\* the Done button is enabled only when every configuration has a result.
C24_SingleForwardPass ==
    /\ \A x, y \in DOMAIN generated :
          x <= y => generated[x].configuration <= generated[y].configuration
    /\ \A x \in DOMAIN generated :
          /\ generated[x].configuration \in Configurations
          /\ Len(results) >= generated[x].configuration - 1
    /\ Len(results) <= Len(combinations)
    /\ \A c \in DOMAIN results : results[c].context = combinations[c]
    /\ \A b, c \in DOMAIN results : results[b].context = results[c].context => b = c
    /\ pc \in {"loop", "test"} => Len(results) = index - 1
    /\ ~done_disabled => Len(results) = Len(combinations)

\* The second configuration being tested, the first having its result.
C24_Witness ==
    /\ pc = "test"
    /\ index = 2
    /\ Len(results) = 1
    /\ done_disabled

----------------------------------------------------------------------------
(* Properties of the label of a configuration. *)

\* The label of configuration c as the results table and the status line
\* are to show it: the assignments of the options at the positions J.
LabelOf(c, J) ==
    {[k |-> options[j].name, v |-> heap[combinations[c]][options[j].name]] : j \in J}

Labelled == shown.i \in Configurations

----------------------------------------------------------------------------
(* Properties of the use of the generator. *)

\* The call of generate that was the generation step of configuration c.
GenerationStep(c) ==
    CHOOSE x \in DOMAIN generated :
        /\ generated[x].configuration = c
        /\ \A y \in DOMAIN generated : generated[y].configuration = c => x <= y

\* C26: in a run the generator is called exactly once for each
\* configuration processed, and the project passed to the tasters is the one
\* made by the call whose success was recorded as the generation step.
C26_GeneratedOnce ==
    /\ \A c \in DOMAIN results : Len(GeneratedFor(c)) = 1
    /\ \A t \in DOMAIN taster_runs :
          taster_runs[t].project = GenerationStep(taster_runs[t].configuration)

----------------------------------------------------------------------------
(* Properties of the pairing of names with answers and results. *)

\* C27: whatever plugins are registered - plugins that leave hooks
\* out, or return None or an empty name from them, included - every pair that
\* get_applicable_tasters and run_tasters form holds a name and the can_handle
\* answer, or the result, of the plugin that declared that name.
C27_PairingKept ==
    pc = "replied"
        => \A x \in DOMAIN pairs : pairs[x].name = pairs[x].other

----------------------------------------------------------------------------
(* Properties of the options screen. *)

\* C28: the count the options screen displays is the number of
\* configurations that pressing Generate hands to the execution run: when the
\* press leaves the screen up, or the run rejects the selections, none is
\* handed, and otherwise the run expands as many as were displayed.
C28_CountIsHandedOver ==
    /\ pc = "ignored" => count = 0
    /\ pc = "failed" => count = 0
    /\ pc = "loop" => count = Len(combinations)

\* C29: when the options screen has dismissed with a result, the
\* selections hold every option name with a non-empty list of values that are
\* all choices of that option, and generate_combinations of the execution run
\* that follows does not fail.
C29_DismissedSelectionsValid ==
    pc \in {"mount", "loop", "failed"}
        => /\ \A j \in DOMAIN options :
                 \E i \in DOMAIN selections :
                    /\ selections[i].name = options[j].name
                    /\ selections[i].values # <<>>
                    /\ \A x \in DOMAIN selections[i].values :
                          \E y \in DOMAIN options[j].choices :
                             options[j].choices[y] = selections[i].values[x]
           /\ pc # "failed"

\* The run has expanded the selections of a screen dismissed with one option
\* left without a ticked checkbox and another with two.
C29_Witness ==
    /\ pc = "loop"
    /\ \E j \in DOMAIN options : \A x \in DOMAIN options[j].choices : <<j, x>> \notin ticked
    /\ \E j \in DOMAIN options : Cardinality({x \in DOMAIN options[j].choices : <<j, x>> \in ticked}) = 2

----------------------------------------------------------------------------
(* Properties of the template inspector. *)

\* C30: when _get_template_dir has returned a directory, for a local
\* template path and for a cloned repository alike, that directory exists.
C30_ReturnedDirExists ==
    (pc = "dir" /\ inspected.call = "_get_template_dir" /\ inspected.kind = "returned")
        => inspected.dir \in disk.dirs

====
